---- MODULE Spec2Model ----
(***************************************************************************)
(* Protozoa: a nutrient field (PetriDish), an agent (Protozoa) and the     *)
(* driver loop (Simulation), modelled in fixed-point integer arithmetic.   *)
(*                                                                         *)
(* Units.  Python floats become integers:                                  *)
(*   positions, radii, sensor_dist   1/PosScale  of a world unit           *)
(*   concentrations, val_l, val_r    1/ValScale                            *)
(*   mean_sense, error, target       1/(2*ValScale)  (the halving of       *)
(*                                   (val_l+val_r)/2.0 stays exact)        *)
(*   source intensity                1/IntScale                            *)
(*   angles                          1/AngScale of a radian                *)
(*   speed                           1/SpeedScale of a world unit          *)
(*   energy                          1/EnergyScale                         *)
(* The scales are chosen so that every product of the control law and of   *)
(* the metabolic update is an exact integer; only exp, cos, sin, the       *)
(* position update and the decay round (floor), as the floats round.       *)
(***************************************************************************)
EXTENDS Integers, Sequences, FiniteSets, TLC

VARIABLES
    dish,       \* PetriDish: [width, height, sources]
    agent,      \* Protozoa: [x, y, angle, speed, val_l, val_r, energy]
    pc,         \* position of Simulation.run in its loop body (0: left the loop)
    running,    \* Simulation.running
    screen,     \* what render() last drew (char index per cell, agent cell)
    last_op,    \* the operation that produced this state
    conc,       \* the value the last get_concentration() call returned
    d_theta,    \* local d_theta of the last update_state()
    noise,      \* local noise of the last update_state()
    calls,      \* loop iterations started / harness operations applied (bounded)
    updates,    \* number of dish.update() calls so far
    senses,     \* number of agent.sense() calls so far
    steps,      \* number of agent.update_state() calls so far
    renders,    \* number of render() calls so far
    sensed_at,  \* value of `updates` when sense() last read the field
    rng,        \* generator state the current tick's draws start from
    before,     \* dish.sources as the last update() call found them
    agent_before \* the agent as the last update_state() call found it

vars == <<dish, agent, pc, running, screen, last_op, conc, d_theta, noise,
          calls, updates, senses, steps, renders, sensed_at, rng, before,
          agent_before>>

----------------------------------------------------------------------------
(* Bounds of the model *)

\* resolution of one random draw: random.random() is u / DrawRes, u in 0..DrawRes
DrawRes == 10
\* number of different generator states a call that draws many numbers starts from
NumSeeds == 3
\* iterations of the driver loop explored
MaxTicks == 2
\* operations applied by the dish and agent harnesses
MaxCalls == 3
\* terminal size reported by getmaxyx()
Rows == 3
Cols == 3

----------------------------------------------------------------------------
(* Fixed-point scales *)

PosScale == 100
ValScale == 1000
IntScale == 1000000
AngScale == 40000000
SpeedScale == 8000
EnergyScale == 8000000
ExpScale == 1000
TrigScale == 1000

Max(a, b) == IF a >= b THEN a ELSE b
Min(a, b) == IF a <= b THEN a ELSE b
Abs(a) == IF a >= 0 THEN a ELSE -a

----------------------------------------------------------------------------
(* random *)

\* random.uniform(a, b) = a + (b - a) * random(), for the draw u / DrawRes
Uniform(a, b, u) ==
    a + ((b - a) \div DrawRes) * u + (((b - a) % DrawRes) * u) \div DrawRes

\* The j-th number drawn by a call that starts from generator state s.
Rand(s, j) == (s * s * j + 3 * s + (j * (j + 1)) \div 2) % (DrawRes + 1)

----------------------------------------------------------------------------
(* math *)

\* 2 * math.pi in angle units
TwoPi == 251327412
\* math.pi in 1/100 radian
Pi100 == 314
\* ln 2 in 1/ExpScale
Ln2 == 693

\* math.exp(-t) for t >= 0 given in 1/ExpScale, result in 1/ExpScale:
\* exp(-t) = 2^(-k) * exp(-r), t = k ln2 + r, exp(-r) by its Taylor
\* polynomial of degree 4 in Horner form.
ExpNeg(t) ==
    LET k == t \div Ln2
        r == t % Ln2
        a4 == ExpScale - r \div 4
        a3 == ExpScale - (r * a4) \div (3 * ExpScale)
        a2 == ExpScale - (r * a3) \div (2 * ExpScale)
        a1 == ExpScale - (r * a2) \div ExpScale
    IN  IF k >= 10 THEN 0 ELSE a1 \div (2 ^ k)

\* math.sin on [0, pi], argument in 1/100 radian, result in 1/TrigScale
\* (Bhaskara's rational approximation).
SinHalf(c) ==
    LET p == c * (Pi100 - c)
    IN  (16 * TrigScale * p) \div (5 * Pi100 * Pi100 - 4 * p)

\* math.sin(a), a in angle units, result in 1/TrigScale
sin(a) ==
    LET c == (a % TwoPi) \div (AngScale \div 100)
    IN  IF c <= Pi100 THEN SinHalf(c) ELSE -SinHalf(Min(c - Pi100, Pi100))

\* math.cos(a) = sin(a + pi/2)
cos(a) == sin(a + TwoPi \div 4)

----------------------------------------------------------------------------
(* PetriDish *)

\* PetriDish.update: decay_factor = 0.995 as <<numerator, denominator>>
decay_factor == <<995, 1000>>
\* PetriDish.update: brownian_step = 0.5
brownian_step == PosScale \div 2
\* PetriDish.update: respawn_threshold = 0.05
respawn_threshold == (5 * IntScale) \div 100

\* _create_random_source, its four draws being numbers j .. j+3 of state s
create_random_source_any_intensity(width, height, s, j) ==
    [x |-> Uniform(0, width, Rand(s, j)),
     y |-> Uniform(0, height, Rand(s, j + 1)),
     radius |-> Uniform(5 * PosScale, 15 * PosScale, Rand(s, j + 2)),
     intensity |-> Uniform(0, IntScale, Rand(s, j + 3))]

create_random_source(width, height, s, j) ==
    [x |-> Uniform(0, width, Rand(s, j)),
     y |-> Uniform(0, height, Rand(s, j + 1)),
     radius |-> Uniform(5 * PosScale, 15 * PosScale, Rand(s, j + 2)),
     intensity |-> Uniform(IntScale \div 2, IntScale, Rand(s, j + 3))]

\* _init_sources: num_sources = n sources, drawn one after the other
init_sources(width, height, n, s) ==
    [i \in 1..n |-> create_random_source(width, height, s, 4 * (i - 1) + 1)]

\* PetriDish.__init__
PetriDish(width, height, n, s) ==
    [width |-> width, height |-> height,
     sources |-> init_sources(width, height, n, s)]

\* One source's term of the sum: I * exp(-dist^2 / (2 * sigma^2))
SourceVal(source, x, y) ==
    LET d_x == x - source.x
        d_y == y - source.y
        dist_sq == d_x * d_x + d_y * d_y
        sigma_sq == source.radius * source.radius
        t == dist_sq \div ((2 * sigma_sq) \div ExpScale)
    IN  (source.intensity * ExpNeg(t)) \div ((IntScale \div ValScale) * ExpScale)

\* the loop of get_concentration: concentration after the first k sources
RECURSIVE Concentration(_, _, _, _)
Concentration(sources, k, x, y) ==
    IF k = 0 THEN 0
    ELSE Concentration(sources, k - 1, x, y) + SourceVal(sources[k], x, y)

get_concentration_unclipped(d, x, y) ==
    Concentration(d.sources, Len(d.sources), x, y)

\* PetriDish.get_concentration
get_concentration(d, x, y) ==
    Min(ValScale, Max(0, Concentration(d.sources, Len(d.sources), x, y)))

\* The body of update's loop up to the clamp, for source number i: entropy,
\* Brownian motion (draws 6(i-1)+1 and 6(i-1)+2 of state s), clamp.
DecayAndDrift_unclamped(source, width, height, s, i) ==
    [source EXCEPT
        !.intensity = (source.intensity * decay_factor[1]) \div decay_factor[2],
        !.x = source.x + Uniform(-brownian_step, brownian_step, Rand(s, 6 * (i - 1) + 1)),
        !.y = source.y + Uniform(-brownian_step, brownian_step, Rand(s, 6 * (i - 1) + 2))]

DecayAndDrift_undecayed(source, width, height, s, i) ==
    LET x1 == source.x + Uniform(-brownian_step, brownian_step, Rand(s, 6 * (i - 1) + 1))
        y1 == source.y + Uniform(-brownian_step, brownian_step, Rand(s, 6 * (i - 1) + 2))
    IN  [source EXCEPT
            !.x = Max(0, Min(width, x1)),
            !.y = Max(0, Min(height, y1))]

DecayAndDrift(source, width, height, s, i) ==
    LET x1 == source.x + Uniform(-brownian_step, brownian_step, Rand(s, 6 * (i - 1) + 1))
        y1 == source.y + Uniform(-brownian_step, brownian_step, Rand(s, 6 * (i - 1) + 2))
    IN  [source EXCEPT
            !.intensity = (source.intensity * decay_factor[1]) \div decay_factor[2],
            !.x = Max(0, Min(width, x1)),
            !.y = Max(0, Min(height, y1))]

\* update with a decayed source removed instead of replaced
update_removing(d, s) ==
    LET moved == [i \in 1..Len(d.sources) |->
                    DecayAndDrift(d.sources[i], d.width, d.height, s, i)]
    IN  [d EXCEPT !.sources =
            SelectSeq(moved, LAMBDA m : m.intensity >= respawn_threshold)]

\* update with the regrowth left out
update_without_regrowth(d, s) ==
    [d EXCEPT !.sources = [i \in 1..Len(d.sources) |->
        DecayAndDrift(d.sources[i], d.width, d.height, s, i)]]

\* PetriDish.update: every source decays and drifts; one that fell below the
\* threshold is replaced in place (draws 6(i-1)+3 .. 6(i-1)+6 of state s).
update(d, s) ==
    [d EXCEPT !.sources = [i \in 1..Len(d.sources) |->
        LET moved == DecayAndDrift(d.sources[i], d.width, d.height, s, i)
        IN  IF moved.intensity < respawn_threshold
            THEN create_random_source(d.width, d.height, s, 6 * (i - 1) + 3)
            ELSE moved]]

----------------------------------------------------------------------------
(* Protozoa *)

\* PARAMS; learning_rate and max_speed as <<numerator, denominator>>
PARAMS ==
    [target |-> (8 * 2 * ValScale) \div 10,
     sensor_dist |-> 2 * PosScale,
     sensor_angle |-> AngScale \div 2,
     learning_rate |-> <<15, 100>>,
     max_speed |-> <<15, 10>>]

\* Protozoa.__init__, u the draw of the heading
Protozoa(x, y, u) ==
    [x |-> x, y |-> y, angle |-> Uniform(0, TwoPi, u), speed |-> 0,
     val_l |-> 0, val_r |-> 0, energy |-> EnergyScale]

\* Protozoa.sense
sense(a, d) ==
    LET theta_l == a.angle + PARAMS.sensor_angle
        x_l == a.x + (PARAMS.sensor_dist * cos(theta_l)) \div TrigScale
        y_l == a.y + (PARAMS.sensor_dist * sin(theta_l)) \div TrigScale
        theta_r == a.angle - PARAMS.sensor_angle
        x_r == a.x + (PARAMS.sensor_dist * cos(theta_r)) \div TrigScale
        y_r == a.y + (PARAMS.sensor_dist * sin(theta_r)) \div TrigScale
    IN  [a EXCEPT !.val_l = get_concentration(d, x_l, y_l),
                  !.val_r = get_concentration(d, x_r, y_r)]

\* update_state 1.-3.: mean_sense and error in 1/(2*ValScale), gradient in 1/ValScale
MeanSense(a) == a.val_l + a.val_r
Error(a) == MeanSense(a) - PARAMS.target
Gradient(a) == a.val_l - a.val_r

\* angle units in one unit of error * gradient, and of uniform(-0.5, 0.5) * error
NoiseScale == 1000
GradUnit == AngScale \div (2 * ValScale * ValScale)
NoiseUnit == AngScale \div (2 * ValScale * NoiseScale)

\* noise = random.uniform(-0.5, 0.5) * abs(error), u the draw
Noise(a, u) ==
    Uniform(-(NoiseScale \div 2), NoiseScale \div 2, u) * Abs(Error(a)) * NoiseUnit

DTheta_sign_flipped(a, u) ==
    (PARAMS.learning_rate[1] * Error(a) * Gradient(a) * GradUnit)
        \div PARAMS.learning_rate[2] + Noise(a, u)

\* d_theta = (-learning_rate * error * gradient) + noise
DTheta(a, u) ==
    (-PARAMS.learning_rate[1] * Error(a) * Gradient(a) * GradUnit)
        \div PARAMS.learning_rate[2] + Noise(a, u)

\* self.angle += d_theta; self.angle %= 2 * math.pi
Turn(a, u) == (a.angle + DTheta(a, u)) % TwoPi

\* self.speed = max_speed * abs(error)
Speed(a) ==
    (PARAMS.max_speed[1] * Abs(Error(a)) * (SpeedScale \div (2 * ValScale)))
        \div PARAMS.max_speed[2]

Metabolism_unclamped(a, speed) ==
    LET ratio == (speed * PARAMS.max_speed[2]) \div PARAMS.max_speed[1]
        metabolic_cost == (5 * EnergyScale) \div 10000
                          + (25 * (EnergyScale \div 10000) * ratio) \div SpeedScale
        intake == (3 * MeanSense(a) * (EnergyScale \div (2 * ValScale))) \div 100
    IN  a.energy - metabolic_cost + intake

\* Metabolic update: cost 0.0005 + 0.0025 * (speed / max_speed), intake
\* 0.03 * mean_sense, energy clamped into [0, 1]
Metabolism(a, speed) ==
    LET ratio == (speed * PARAMS.max_speed[2]) \div PARAMS.max_speed[1]
        metabolic_cost == (5 * EnergyScale) \div 10000
                          + (25 * (EnergyScale \div 10000) * ratio) \div SpeedScale
        intake == (3 * MeanSense(a) * (EnergyScale \div (2 * ValScale))) \div 100
        energy == a.energy - metabolic_cost + intake
    IN  Max(0, Min(EnergyScale, energy))

Exhaustion_halting(speed, energy) ==
    IF energy <= EnergyScale \div 100 THEN 0 ELSE speed

\* if self.energy <= 0.01: self.speed *= 0.5
Exhaustion(speed, energy) ==
    IF energy <= EnergyScale \div 100 THEN speed \div 2 ELSE speed

Move_unclamped(a, angle, speed, d) ==
    [x |-> a.x + (speed * cos(angle) * PosScale) \div (SpeedScale * TrigScale),
     y |-> a.y + (speed * sin(angle) * PosScale) \div (SpeedScale * TrigScale)]

\* Position update and boundary check
Move(a, angle, speed, d) ==
    LET x == a.x + (speed * cos(angle) * PosScale) \div (SpeedScale * TrigScale)
        y == a.y + (speed * sin(angle) * PosScale) \div (SpeedScale * TrigScale)
    IN  [x |-> Max(0, Min(d.width, x)), y |-> Max(0, Min(d.height, y))]

\* Protozoa.update_state, u the draw of the noise
update_state(a, d, u) ==
    LET angle == Turn(a, u)
        energy == Metabolism(a, Speed(a))
        speed == Exhaustion(Speed(a), energy)
        pos == Move(a, angle, speed, d)
    IN  [a EXCEPT !.angle = angle, !.speed = speed, !.energy = energy,
                  !.x = pos.x, !.y = pos.y]

----------------------------------------------------------------------------
(* Simulation *)

\* Simulation.update with sense() ahead of dish.update()
UpdateBody_sense_first == <<"sense", "dish_update", "update_state">>

\* Simulation.update: the three calls, in order
UpdateBody == <<"dish_update", "sense", "update_state">>

\* the body of the while loop of Simulation.run, update() expanded
LoopBody == <<"handle_input">> \o UpdateBody \o <<"render", "sleep">>

At(op) == pc \in 1..Len(LoopBody) /\ LoopBody[pc] = op

\* self.chars = " .:-=+*#%@"
NumChars == 10

\* _render_field: the character index of every cell of rows 0 .. rows-2
render_field(d, rows, cols) ==
    [r \in 0..(rows - 2) |-> [c \in 0..(cols - 1) |->
        LET world_y == (r * d.height) \div rows
            world_x == (c * d.width) \div cols
            val == get_concentration(d, world_x, world_y)
        IN  (val * (NumChars - 1)) \div ValScale]]

\* _render_agent: the cell of the agent, clipped to the screen
render_agent(a, d, rows, cols) ==
    <<Max(0, Min(rows - 1, (a.y * rows) \div d.height)),
      Max(0, Min(cols - 1, (a.x * cols) \div d.width))>>

\* _render_hud: the numbers shown, in hundredths
render_hud(a) ==
    [sens |-> (MeanSense(a) * 100 + ValScale) \div (2 * ValScale),
     err |-> (Error(a) * 100 + ValScale) \div (2 * ValScale),
     spd |-> (a.speed * 100 + SpeedScale \div 2) \div SpeedScale,
     egy |-> (a.energy * 100 + EnergyScale \div 2) \div EnergyScale]

\* Simulation.render
render(a, d, rows, cols) ==
    [field |-> render_field(d, rows, cols),
     agent |-> render_agent(a, d, rows, cols),
     hud |-> render_hud(a)]

NoConc == [x |-> 0, y |-> 0, value |-> 0]
NoScreen == [field |-> <<>>, agent |-> <<0, 0>>, hud |-> <<>>]

----------------------------------------------------------------------------
(* The program: Simulation.run *)

\* run(): PetriDish(100.0, 100.0), Protozoa(50.0, 50.0), first loop test
Init ==
    \E n \in 5..10, s \in 1..NumSeeds :
        /\ dish = PetriDish(100 * PosScale, 100 * PosScale, n, s)
        /\ agent = Protozoa(50 * PosScale, 50 * PosScale, Rand(s, 4 * n + 1))
        /\ rng = s
        /\ pc = 1
        /\ running = TRUE
        /\ screen = NoScreen
        /\ last_op = "init"
        /\ conc = NoConc
        /\ d_theta = 0
        /\ noise = 0
        /\ calls = 1
        /\ updates = 0 /\ senses = 0 /\ steps = 0 /\ renders = 0
        /\ sensed_at = 0
        /\ before = <<>>
        /\ agent_before = agent

Advance == pc' = pc + 1

\* handle_input: getch() returns "q", another key, or no key
HandleInput ==
    /\ At("handle_input")
    /\ \E key \in {"q", "other"} :
        running' = IF key = "q" THEN FALSE ELSE running
    /\ Advance
    /\ last_op' = "handle_input"
    /\ UNCHANGED <<dish, agent, screen, conc, d_theta, noise, calls, updates,
                   senses, steps, renders, sensed_at, rng, before,
                   agent_before>>

\* self.dish.update()
DishUpdate ==
    /\ before' = dish.sources
    /\ At("dish_update")
    /\ \E s \in 1..NumSeeds :
        /\ dish' = update(dish, s)
        /\ rng' = s
    /\ updates' = updates + 1
    /\ Advance
    /\ last_op' = "update"
    /\ UNCHANGED <<agent, running, screen, conc, d_theta, noise, calls,
                   senses, steps, renders, sensed_at, agent_before>>

\* self.agent.sense(self.dish)
Sense ==
    /\ At("sense")
    /\ agent' = sense(agent, dish)
    /\ senses' = senses + 1
    /\ sensed_at' = updates
    /\ Advance
    /\ last_op' = "sense"
    /\ UNCHANGED <<dish, running, screen, conc, d_theta, noise, calls,
                   updates, steps, renders, rng, before,
                   agent_before>>

\* self.agent.update_state(self.dish); the noise is the draw after update()'s
UpdateState ==
    /\ agent_before' = agent
    /\ At("update_state")
    /\ LET u == Rand(rng, 6 * Len(dish.sources) + 1)
       IN  /\ agent' = update_state(agent, dish, u)
           /\ d_theta' = DTheta(agent, u)
           /\ noise' = Noise(agent, u)
    /\ steps' = steps + 1
    /\ Advance
    /\ last_op' = "update_state"
    /\ UNCHANGED <<dish, running, screen, conc, calls, updates, senses,
                   renders, sensed_at, rng, before>>

\* self.render(rows, cols)
Render ==
    /\ At("render")
    /\ screen' = render(agent, dish, Rows, Cols)
    /\ renders' = renders + 1
    /\ Advance
    /\ last_op' = "render"
    /\ UNCHANGED <<dish, agent, running, conc, d_theta, noise, calls,
                   updates, senses, steps, sensed_at, rng, before,
                   agent_before>>

\* time.sleep(0.05) and the loop test: while self.running
Sleep ==
    /\ At("sleep")
    /\ \/ running /\ calls < MaxTicks /\ pc' = 1 /\ calls' = calls + 1
       \/ ~running /\ pc' = 0 /\ calls' = calls
    /\ last_op' = "sleep"
    /\ UNCHANGED <<dish, agent, running, screen, conc, d_theta, noise,
                   updates, senses, steps, renders, sensed_at, rng, before,
                   agent_before>>

\* except KeyboardInterrupt: pass
Interrupt ==
    /\ pc # 0
    /\ pc' = 0
    /\ last_op' = "interrupt"
    /\ UNCHANGED <<dish, agent, running, screen, conc, d_theta, noise, calls,
                   updates, senses, steps, renders, sensed_at, rng, before,
                   agent_before>>

Next ==
    \/ HandleInput
    \/ DishUpdate
    \/ Sense
    \/ UpdateState
    \/ Render
    \/ Sleep
    \/ Interrupt

Spec == Init /\ [][Next]_vars

----------------------------------------------------------------------------
(* The dish on its own: update() and get_concentration() called directly,  *)
(* as tests/test_petri_dish.py calls them, on a constructed dish whose     *)
(* sources have aged: any intensity down to the threshold is reached by    *)
(* enough earlier update() calls, and the tests assign lower ones.         *)

AgedIntensities == <<IntScale, IntScale \div 2, 50200, 1000>>

\* dish.sources[i]["intensity"] assigned, pattern p
SetIntensities(d, p) ==
    [d EXCEPT !.sources = [i \in 1..Len(d.sources) |->
        [d.sources[i] EXCEPT !.intensity =
            AgedIntensities[((i + p) % Len(AgedIntensities)) + 1]]]]

\* points of get_concentration calls: inside the domain, on its corner, far
\* outside it, and at the first and the last source
QueryPoints(d) ==
    {<<50 * PosScale, 50 * PosScale>>, <<0, 0>>,
     <<-100 * PosScale, -100 * PosScale>>, <<200 * PosScale, 50 * PosScale>>}
    \cup {<<d.sources[i].x, d.sources[i].y>> : i \in {1, Len(d.sources)}}

InitDish ==
    \E n \in 5..10, s \in 1..NumSeeds, p \in 1..Len(AgedIntensities) :
        /\ dish = SetIntensities(PetriDish(100 * PosScale, 100 * PosScale, n, s), p)
        /\ agent = Protozoa(50 * PosScale, 50 * PosScale, 0)
        /\ rng = s
        /\ pc = 0
        /\ running = FALSE
        /\ screen = NoScreen
        /\ last_op = "init"
        /\ conc = NoConc
        /\ d_theta = 0
        /\ noise = 0
        /\ calls = 0
        /\ updates = 0 /\ senses = 0 /\ steps = 0 /\ renders = 0
        /\ sensed_at = 0
        /\ before = <<>>
        /\ agent_before = agent

\* dish.update()
CallUpdate ==
    /\ before' = dish.sources
    /\ calls < MaxCalls
    /\ \E s \in 1..NumSeeds :
        /\ dish' = update(dish, s)
        /\ rng' = s
    /\ updates' = updates + 1
    /\ calls' = calls + 1
    /\ last_op' = "update"
    /\ UNCHANGED <<agent, pc, running, screen, conc, d_theta, noise, senses,
                   steps, renders, sensed_at, agent_before>>

\* dish.get_concentration(x, y)
CallGetConcentration ==
    /\ calls < MaxCalls
    /\ \E q \in QueryPoints(dish) :
        conc' = [x |-> q[1], y |-> q[2],
                 value |-> get_concentration(dish, q[1], q[2])]
    /\ calls' = calls + 1
    /\ last_op' = "get_concentration"
    /\ UNCHANGED <<dish, agent, pc, running, screen, d_theta, noise, updates,
                   senses, steps, renders, sensed_at, rng, before,
                   agent_before>>

NextDish ==
    \/ CallUpdate
    \/ CallGetConcentration

SpecDish == InitDish /\ [][NextDish]_vars

----------------------------------------------------------------------------
(* The agent on its own: update_state() called directly with sensor values *)
(* assigned, as tests/test_protozoa.py calls it (an object with only width *)
(* and height stands for the dish), from any position and any energy in    *)
(* [0, 1].                                                                 *)

\* type("obj", (object,), {"width": 100.0, "height": 100.0})
dish_mock == [width |-> 100 * PosScale, height |-> 100 * PosScale, sources |-> <<>>]

StartPositions ==
    {<<50 * PosScale, 50 * PosScale>>, <<105 * PosScale, -5 * PosScale>>,
     <<0, 100 * PosScale>>}

StartEnergies == {0, EnergyScale \div 100, EnergyScale}

\* <<val_l, val_r>> in 1/ValScale
SensedPairs ==
    {<<200, 0>>, <<0, 200>>, <<800, 800>>, <<600, 1000>>, <<0, 0>>,
     <<1000, 1000>>}

InitAgent ==
    \E q \in StartPositions, e \in StartEnergies, s \in 1..NumSeeds :
        /\ dish = dish_mock
        /\ agent = [Protozoa(q[1], q[2], Rand(s, 1)) EXCEPT !.energy = e]
        /\ rng = s
        /\ pc = 0
        /\ running = FALSE
        /\ screen = NoScreen
        /\ last_op = "init"
        /\ conc = NoConc
        /\ d_theta = 0
        /\ noise = 0
        /\ calls = 0
        /\ updates = 0 /\ senses = 0 /\ steps = 0 /\ renders = 0
        /\ sensed_at = 0
        /\ before = <<>>
        /\ agent_before = agent

\* p.val_l = ...; p.val_r = ...
SetSensors ==
    /\ calls < MaxCalls
    /\ \E v \in SensedPairs :
        agent' = [agent EXCEPT !.val_l = v[1], !.val_r = v[2]]
    /\ calls' = calls + 1
    /\ last_op' = "set_sensors"
    /\ UNCHANGED <<dish, pc, running, screen, conc, d_theta, noise, updates,
                   senses, steps, renders, sensed_at, rng, before,
                   agent_before>>

\* p.update_state(dish_mock)
CallUpdateState ==
    /\ agent_before' = agent
    /\ calls < MaxCalls
    /\ \E u \in 0..DrawRes :
        /\ agent' = update_state(agent, dish, u)
        /\ d_theta' = DTheta(agent, u)
        /\ noise' = Noise(agent, u)
    /\ steps' = steps + 1
    /\ calls' = calls + 1
    /\ last_op' = "update_state"
    /\ UNCHANGED <<dish, pc, running, screen, conc, updates, senses, renders,
                   sensed_at, rng, before>>

NextAgent ==
    \/ SetSensors
    \/ CallUpdateState

SpecAgent == InitAgent /\ [][NextAgent]_vars

----------------------------------------------------------------------------
(* Claims *)

\* update() found source i decayed below the threshold and replaced it
Respawned(i) ==
    (before[i].intensity * 995) \div 1000 < (5 * IntScale) \div 100

\* C1: the dish holds between 5 and 10 sources after construction and after
\* any number of update() calls; update() replaces, never adds or removes.
C1_SourceCount ==
    /\ Len(dish.sources) \in 5..10
    /\ updates > 0 => Len(dish.sources) = Len(before)

C1_Witness ==
    /\ last_op = "update"
    /\ \E i \in 1..Len(before) : Respawned(i)
    /\ \E i \in 1..Len(before) : ~Respawned(i)

\* C2: energy is in [0, 1] after every update_state() call, from any
\* starting energy in [0, 1] and for any sensed values in [0, 1].
C2_EnergyRange == agent.energy \in 0..EnergyScale

\* an update_state() whose energy balance left [0, 1] before the clamp
C2_Witness ==
    /\ last_op = "update_state"
    /\ Metabolism_unclamped(agent_before, Speed(agent_before)) > EnergyScale
    /\ agent.energy = EnergyScale

\* the field of test_get_concentration: intensities 1.0 and 0.5 at (50, 50)
TestField ==
    [width |-> 100 * PosScale, height |-> 100 * PosScale,
     sources |-> <<[x |-> 50 * PosScale, y |-> 50 * PosScale,
                    radius |-> 10 * PosScale, intensity |-> IntScale],
                   [x |-> 50 * PosScale, y |-> 50 * PosScale,
                    radius |-> 10 * PosScale, intensity |-> IntScale \div 2]>>]

\* C3: get_concentration returns a value in [0, 1] for every field state and
\* every query point, inside or outside the domain; co-located sources of
\* intensity 1.0 and 0.5 give 1.0; and the query changes no field state.
C3_ConcentrationRange ==
    /\ [](/\ conc.value \in 0..ValScale
          /\ get_concentration(TestField, 50 * PosScale, 50 * PosScale) = ValScale)
    /\ [][last_op' = "get_concentration" => dish' = dish]_vars

\* a query whose sum of contributions exceeds 1 and is clipped
C3_Witness ==
    /\ last_op = "get_concentration"
    /\ get_concentration_unclipped(dish, conc.x, conc.y) > ValScale
    /\ conc.value = ValScale

\* C4: after every update_state(dish) the position is inside the bounds,
\* whatever the starting position, heading and sensed values.
C4_PositionClamped ==
    steps > 0 =>
        /\ 0 <= agent.x /\ agent.x <= dish.width
        /\ 0 <= agent.y /\ agent.y <= dish.height

\* the start of test_boundary_check: x = 105, y = -5, clamped to 100 and 0
C4_Witness ==
    /\ last_op = "update_state"
    /\ agent_before.x = 105 * PosScale /\ agent_before.y = -5 * PosScale
    /\ agent.x = dish.width /\ agent.y = 0

\* C5: every iteration runs dish.update(), agent.sense(dish) and
\* agent.update_state(dish) once each, in that order, so sense() reads the
\* field this tick's update() produced; render() runs after the tick and
\* before the next, and changes neither the field nor the agent.
C5_TickOrder ==
    /\ [](/\ steps <= senses /\ senses <= updates /\ updates <= steps + 1
          /\ renders <= steps /\ steps <= renders + 1
          /\ senses > 0 => sensed_at = senses
          /\ At("handle_input") =>
                updates = calls - 1 /\ steps = calls - 1 /\ renders = calls - 1
          /\ At("update_state") =>
                /\ senses = calls /\ steps = calls - 1
                /\ agent.val_l = sense(agent, dish).val_l
                /\ agent.val_r = sense(agent, dish).val_r
          /\ At("render") =>
                /\ updates = calls /\ senses = calls /\ steps = calls
                /\ renders = calls - 1
          /\ At("sleep") => steps = calls /\ renders = calls)
    /\ [][last_op' = "render" => dish' = dish /\ agent' = agent]_vars

\* the second tick has been rendered
C5_Witness ==
    /\ last_op = "render"
    /\ calls = 2 /\ renders = 2 /\ updates = 2

C7_EveryIntensityDecreases ==
    updates > 0 =>
        \A i \in 1..Len(before) :
            before[i].intensity > 0 =>
                dish.sources[i].intensity < before[i].intensity

\* C7 amended: update() strictly lowers the intensity of every source that
\* started above 0 and that it did not replace, i.e. whose intensity times
\* 0.995 is still at least the respawn threshold 0.05.
C7_KeptIntensityDecreases ==
    updates > 0 =>
        \A i \in 1..Len(before) :
            (before[i].intensity > 0 /\ ~Respawned(i)) =>
                dish.sources[i].intensity < before[i].intensity

C7_Witness ==
    /\ last_op = "update"
    /\ \E i \in 1..Len(before) :
        /\ ~Respawned(i)
        /\ dish.sources[i].intensity < before[i].intensity
        /\ dish.sources[i].intensity >= (5 * IntScale) \div 100

\* C8: a source below the respawn threshold 0.05 before update() is above
\* 0.1 after it, and no source is below the threshold once update() returns.
C8_Regrowth ==
    updates > 0 =>
        \A i \in 1..Len(before) :
            /\ before[i].intensity < (5 * IntScale) \div 100 =>
                    dish.sources[i].intensity > IntScale \div 10
            /\ dish.sources[i].intensity >= (5 * IntScale) \div 100

C8_Witness ==
    /\ last_op = "update"
    /\ \E i \in 1..Len(before) :
        /\ before[i].intensity < (5 * IntScale) \div 100
        /\ dish.sources[i].intensity >= IntScale \div 2

\* C9: every source lies in [0, width] x [0, height] after construction and
\* after any number of update() calls.
C9_SourcesInBounds ==
    \A i \in 1..Len(dish.sources) :
        /\ 0 <= dish.sources[i].x /\ dish.sources[i].x <= dish.width
        /\ 0 <= dish.sources[i].y /\ dish.sources[i].y <= dish.height

\* an update() in which one source was pinned to an edge by the clamp and
\* another one was respawned
C9_Witness ==
    /\ last_op = "update"
    /\ \E i \in 1..Len(before) :
        LET m == DecayAndDrift_unclamped(before[i], dish.width, dish.height, rng, i)
        IN  /\ ~Respawned(i)
            /\ \/ m.x < 0 \/ m.x > dish.width \/ m.y < 0 \/ m.y > dish.height
    /\ \E i \in 1..Len(before) : Respawned(i)

\* C10: after update_state() the speed is 0 exactly when the sensed mean
\* equals the target; it is max_speed * |error|, halved when the energy is
\* at most 0.01 after the metabolic update, and halving never makes it 0.
C10_SpeedZeroIffAtTarget ==
    last_op = "update_state" =>
        LET err == (agent.val_l + agent.val_r) - (8 * 2 * ValScale) \div 10
            full == (15 * Abs(err) * SpeedScale) \div (10 * 2 * ValScale)
        IN  /\ agent.speed = 0 <=> err = 0
            /\ agent.energy <= EnergyScale \div 100 => 2 * agent.speed = full
            /\ agent.energy > EnergyScale \div 100 => agent.speed = full

\* an exhausted agent that still moves
C10_Witness ==
    /\ last_op = "update_state"
    /\ agent.energy <= EnergyScale \div 100
    /\ agent.speed > 0

====
